---- MODULE Spec2Model ----
(***************************************************************************)
(* RelayBoardController of src/main.py: a client for the USB-RLY08C        *)
(* 8-channel relay board.  The controller owns one serial handle, a port   *)
(* name and a cached 8-bit relay mask.  The serial library and the board   *)
(* are the environment: opening a port may fail, every transport call may  *)
(* raise, and a read returns one byte or nothing (timeout).                *)
(*                                                                         *)
(* Python's Optional values are sequences of length at most one: <<>> is   *)
(* None and <<v>> is the value v.                                          *)
(***************************************************************************)
EXTENDS Integers, Sequences, FiniteSets, TLC

VARIABLES
    serial,   \* self._serial : <<>> or <<the Serial object>>
    port,     \* self.port    : <<>> or <<name>>
    state,    \* self.state   : the cached relay mask
    call,     \* the controller method last invoked, with its arguments
    result,   \* how that invocation ended: [exc, ret]
    io,       \* the transport calls that invocation made, in order
    handles,  \* the number of ports this process holds open
    board,    \* the relay board: its mask, and the mask its callers asked for
    peer,     \* a second controller object driving the same board
    waited,   \* time units the read in progress has been blocked
    gui       \* the widgets and variables of RelayBoardApp

vars == <<serial, port, state, call, result, io, handles, board, peer, waited, gui>>

\* what lies outside the single controller and its transport
outside == <<board, peer, waited, gui>>

(***************************************************************************)
(* Program constants.                                                      *)
(***************************************************************************)
BAUDRATE == 19200
GET_STATES_CMD == 91
SET_STATES_CMD == 92

(***************************************************************************)
(* Bounds and input sets.                                                  *)
(***************************************************************************)
MaxChannels == 2                       \* longest channel list passed to set_channels
MaxStale == 1                          \* most bytes left unread in the input buffer
Ports == {"COM1", "COM2"}              \* port names handed to connect
ChannelArgs == 0..9                    \* channel numbers handed to set_channel
ListChannels == {0, 2, 4, 9}           \* channel numbers listed for set_channels
StateArgs == {-1, 0, 42, 176, 255, 256, 432}   \* integers handed to set_states
ReplyBytes == {0, 1, 42, 129, 255}     \* bytes the board answers with
\* bytes that reach the input buffer outside an exchange; kept apart from
\* ReplyBytes so that a stale byte is told from the answer to a request
StaleBytes == {7}
Replies == {<<>>} \cup {<<b>> : b \in ReplyBytes}   \* ser.read(1): b"" or one byte
Faults == {"none", "flush", "write", "read"}       \* transport call that raises
\* every list of at most MaxChannels channels, and the list [2, 4, 6]
ChannelLists == UNION {[1..k -> ListChannels] : k \in 0..MaxChannels} \cup {<<2, 4, 6>>}

(***************************************************************************)
(* Python integer arithmetic: unbounded two's-complement &, |, ~, <<.      *)
(***************************************************************************)
RECURSIVE BitAnd(_, _)
BitAnd(a, b) ==
    IF a = 0 \/ b = 0 THEN 0
    ELSE IF a = -1 THEN b
    ELSE IF b = -1 THEN a
    ELSE (a % 2) * (b % 2) + 2 * BitAnd(a \div 2, b \div 2)

RECURSIVE BitOr(_, _)
BitOr(a, b) ==
    IF a = 0 THEN b
    ELSE IF b = 0 THEN a
    ELSE IF a = -1 \/ b = -1 THEN -1
    ELSE (IF a % 2 = 1 \/ b % 2 = 1 THEN 1 ELSE 0) + 2 * BitOr(a \div 2, b \div 2)

BitNot(a) == -a - 1

Shl(a, n) == a * 2^n

(***************************************************************************)
(* Transport calls, as recorded in io.                                     *)
(***************************************************************************)
IoOpen(p, ok)   == [call |-> "open", data |-> <<>>, ok |-> ok, port |-> p,
                    baudrate |-> BAUDRATE, timeout |-> 1, write_timeout |-> 1]
IoClose         == [call |-> "close", data |-> <<>>, ok |-> TRUE]
IoFlush(ok)     == [call |-> "reset_input_buffer", data |-> <<>>, ok |-> ok]
\* a reset_input_buffer() that returned, with the unread bytes it discarded
IoFlushed(d)    == [call |-> "reset_input_buffer", data |-> d, ok |-> TRUE]
IoWrite(d, ok)  == [call |-> "write", data |-> d, ok |-> ok]
IoRead(d, ok)   == [call |-> "read", data |-> d, ok |-> ok]

(***************************************************************************)
(* The controller object and the outcome of a method.                      *)
(***************************************************************************)
Self == [serial |-> serial, port |-> port, state |-> state]

Returned(self, ret, trace) == [self |-> self, exc |-> "none", ret |-> ret, io |-> trace]
Raised(self, exc, trace)   == [self |-> self, exc |-> exc, ret |-> <<>>, io |-> trace]

\* serial.Serial(...) opened without a read timeout: read() blocks until a byte
Serial_blocking(p) == [port |-> p, is_open |-> TRUE, in_buffer |-> <<>>,
                       timeout |-> <<>>, write_timeout |-> <<1>>]

\* serial.Serial(port, baudrate=BAUDRATE, timeout=1, write_timeout=1), opened;
\* in_buffer is the bytes received and not yet read
Serial(p) == [port |-> p, is_open |-> TRUE, in_buffer |-> <<>>,
              timeout |-> <<1>>, write_timeout |-> <<1>>]

is_connected(self) == self.serial # <<>> /\ self.serial[1].is_open

\* close() that keeps the port name
close_keeps_port(self) ==
    Returned([self EXCEPT !.serial = <<>>], <<>>,
             IF self.serial # <<>> /\ self.serial[1].is_open THEN <<IoClose>> ELSE <<>>)

\* close() that also forgets the cached mask
close_resets(self) ==
    Returned([self EXCEPT !.serial = <<>>, !.port = <<>>, !.state = 0], <<>>,
             IF self.serial # <<>> /\ self.serial[1].is_open THEN <<IoClose>> ELSE <<>>)

close(self) ==
    Returned([self EXCEPT !.serial = <<>>, !.port = <<>>], <<>>,
             IF self.serial # <<>> /\ self.serial[1].is_open THEN <<IoClose>> ELSE <<>>)

ensure_connection(self) ==
    IF self.serial = <<>> \/ ~self.serial[1].is_open THEN "NotConnected" ELSE "none"

\* self with the input buffer of its open port replaced
WithBuffer(self, buf) == [self EXCEPT !.serial = <<[self.serial[1] EXCEPT !.in_buffer = buf]>>]

\* ser.read(1) on the bytes available before the timeout: the oldest byte, if any
ReadOne(avail) == IF avail = <<>> THEN <<>> ELSE <<Head(avail)>>

\* _send_command() without the reset_input_buffer() call
send_command_noflush(self, command, payload, read_bytes, fault, reply) ==
    IF ensure_connection(self) # "none"
    THEN [self |-> self, exc |-> ensure_connection(self), response |-> <<>>, io |-> <<>>]
    ELSE IF fault = "write"
    THEN [self |-> self, exc |-> "SerialException", response |-> <<>>,
          io |-> <<IoWrite(<<command>> \o payload, FALSE)>>]
    ELSE IF read_bytes # 0
    THEN IF fault = "read"
         THEN [self |-> self, exc |-> "SerialException", response |-> <<>>,
               io |-> <<IoWrite(<<command>> \o payload, TRUE), IoRead(<<>>, FALSE)>>]
         ELSE LET avail == self.serial[1].in_buffer \o reply IN
              [self |-> WithBuffer(self, IF avail = <<>> THEN <<>> ELSE Tail(avail)),
               exc |-> "none", response |-> ReadOne(avail),
               io |-> <<IoWrite(<<command>> \o payload, TRUE), IoRead(ReadOne(avail), TRUE)>>]
    ELSE [self |-> self, exc |-> "none", response |-> <<>>,
          io |-> <<IoWrite(<<command>> \o payload, TRUE)>>]

\* fault names the transport call that raises; reply is what the board sends
\* in answer to the command before the read timeout.
send_command(self, command, payload, read_bytes, fault, reply) ==
    IF ensure_connection(self) # "none"
    THEN [self |-> self, exc |-> ensure_connection(self), response |-> <<>>, io |-> <<>>]
    ELSE IF fault = "flush"
    THEN [self |-> self, exc |-> "SerialException", response |-> <<>>,
          io |-> <<IoFlush(FALSE)>>]
    ELSE LET flushed == WithBuffer(self, <<>>) IN
    IF fault = "write"
    THEN [self |-> flushed, exc |-> "SerialException", response |-> <<>>,
          io |-> <<IoFlushed(self.serial[1].in_buffer), IoWrite(<<command>> \o payload, FALSE)>>]
    ELSE IF read_bytes # 0
    THEN IF fault = "read"
         THEN [self |-> flushed, exc |-> "SerialException", response |-> <<>>,
               io |-> <<IoFlushed(self.serial[1].in_buffer), IoWrite(<<command>> \o payload, TRUE),
                        IoRead(<<>>, FALSE)>>]
         ELSE LET avail == flushed.serial[1].in_buffer \o reply IN
              [self |-> WithBuffer(flushed, IF avail = <<>> THEN <<>> ELSE Tail(avail)),
               exc |-> "none", response |-> ReadOne(avail),
               io |-> <<IoFlushed(self.serial[1].in_buffer), IoWrite(<<command>> \o payload, TRUE),
                        IoRead(ReadOne(avail), TRUE)>>]
    ELSE [self |-> flushed, exc |-> "none", response |-> <<>>,
          io |-> <<IoFlushed(self.serial[1].in_buffer), IoWrite(<<command>> \o payload, TRUE)>>]

\* get_states() that clears the cache when the board does not answer
get_states_nodata_zero(self, fault, reply) ==
    LET r == send_command(self, GET_STATES_CMD, <<>>, 1, fault, reply) IN
    IF r.exc # "none" THEN Raised(r.self, r.exc, r.io)
    ELSE IF r.response # <<>>
    THEN Returned([r.self EXCEPT !.state = r.response[1]], <<r.response[1]>>, r.io)
    ELSE Returned([r.self EXCEPT !.state = 0], <<>>, r.io)

get_states(self, fault, reply) ==
    LET r == send_command(self, GET_STATES_CMD, <<>>, 1, fault, reply) IN
    IF r.exc # "none" THEN Raised(r.self, r.exc, r.io)
    ELSE IF r.response # <<>>
    THEN Returned([r.self EXCEPT !.state = r.response[1]], <<r.response[1]>>, r.io)
    ELSE Returned(r.self, <<>>, r.io)

\* set_states() that caches the integer it was given, unmasked
set_states_cache_raw(self, st, fault) ==
    LET r == send_command(self, SET_STATES_CMD, <<BitAnd(st, 255)>>, 0, fault, <<>>) IN
    IF r.exc # "none" THEN Raised(r.self, r.exc, r.io)
    ELSE Returned([r.self EXCEPT !.state = st], <<st>>, r.io)

\* set_states() that reads an acknowledgement byte after the write
set_states_reads_ack(self, st, fault) ==
    LET r == send_command(self, SET_STATES_CMD, <<BitAnd(st, 255)>>, 1, fault, <<>>) IN
    IF r.exc # "none" THEN Raised(r.self, r.exc, r.io)
    ELSE Returned([r.self EXCEPT !.state = BitAnd(st, 255)], <<BitAnd(st, 255)>>, r.io)

\* set_states() that caches the mask before sending it
set_states_cache_first(self, st, fault) ==
    LET r == send_command(self, SET_STATES_CMD, <<BitAnd(st, 255)>>, 0, fault, <<>>)
        cached == [r.self EXCEPT !.state = BitAnd(st, 255)]
    IN IF r.exc # "none" THEN Raised(cached, r.exc, r.io)
       ELSE Returned(cached, <<BitAnd(st, 255)>>, r.io)

set_states(self, st, fault) ==
    LET r == send_command(self, SET_STATES_CMD, <<BitAnd(st, 255)>>, 0, fault, <<>>) IN
    IF r.exc # "none" THEN Raised(r.self, r.exc, r.io)
    ELSE Returned([r.self EXCEPT !.state = BitAnd(st, 255)], <<BitAnd(st, 255)>>, r.io)

\* set_channel() that shifts by the channel number instead of channel - 1
set_channel_shift(self, channel, on, fault) ==
    IF channel < 1 \/ channel > 8 THEN Raised(self, "ValueError", <<>>)
    ELSE set_states(self,
                    IF on THEN BitOr(self.state, Shl(1, channel))
                    ELSE BitAnd(self.state, BitNot(Shl(1, channel))),
                    fault)

\* set_channel() that flips the bit instead of forcing it
set_channel_toggle(self, channel, on, fault) ==
    IF channel < 1 \/ channel > 8 THEN Raised(self, "ValueError", <<>>)
    ELSE set_states(self,
                    IF (self.state \div 2^(channel - 1)) % 2 = 1
                    THEN self.state - 2^(channel - 1)
                    ELSE self.state + 2^(channel - 1),
                    fault)

\* set_channel() whose range check lets channel 9 through
set_channel_range9(self, channel, on, fault) ==
    IF channel < 1 \/ channel > 9 THEN Raised(self, "ValueError", <<>>)
    ELSE set_states(self,
                    IF on THEN BitOr(self.state, Shl(1, channel - 1))
                    ELSE BitAnd(self.state, BitNot(Shl(1, channel - 1))),
                    fault)

set_channel(self, channel, on, fault) ==
    IF channel < 1 \/ channel > 8 THEN Raised(self, "ValueError", <<>>)
    ELSE set_states(self,
                    IF on THEN BitOr(self.state, Shl(1, channel - 1))
                    ELSE BitAnd(self.state, BitNot(Shl(1, channel - 1))),
                    fault)

\* the loop of set_channels skipping an out-of-range entry instead of raising
RECURSIVE fold_channels_skip(_, _, _, _)
fold_channels_skip(channels, on, i, st) ==
    IF i > Len(channels) THEN <<st>>
    ELSE IF channels[i] < 1 \/ channels[i] > 8
    THEN fold_channels_skip(channels, on, i + 1, st)
    ELSE fold_channels_skip(channels, on, i + 1,
                            IF on THEN BitOr(st, Shl(1, channels[i] - 1))
                            ELSE BitAnd(st, BitNot(Shl(1, channels[i] - 1))))

\* The loop of set_channels from position i on: <<>> when an entry is out of
\* range (the ValueError), else <<st>>, the local mask after the last entry.
RECURSIVE fold_channels(_, _, _, _)
fold_channels(channels, on, i, st) ==
    IF i > Len(channels) THEN <<st>>
    ELSE IF channels[i] < 1 \/ channels[i] > 8 THEN <<>>
    ELSE fold_channels(channels, on, i + 1,
                       IF on THEN BitOr(st, Shl(1, channels[i] - 1))
                       ELSE BitAnd(st, BitNot(Shl(1, channels[i] - 1))))

\* set_channels() that returns at once when no channel is listed
set_channels_skip_empty(self, channels, on, fault) ==
    LET st == fold_channels(channels, on, 1, self.state) IN
    IF channels = <<>> THEN Returned(self, <<self.state>>, <<>>)
    ELSE IF st = <<>> THEN Raised(self, "ValueError", <<>>)
    ELSE set_states(self, st[1], fault)

\* set_channels() that folds from an empty mask instead of the cached one
set_channels_from_zero(self, channels, on, fault) ==
    LET st == fold_channels(channels, on, 1, 0) IN
    IF st = <<>> THEN Raised(self, "ValueError", <<>>)
    ELSE set_states(self, st[1], fault)

set_channels(self, channels, on, fault) ==
    LET st == fold_channels(channels, on, 1, self.state) IN
    IF st = <<>> THEN Raised(self, "ValueError", <<>>)
    ELSE set_states(self, st[1], fault)

\* connect() that does not close the connection it already has
connect_no_close(self, p, openOk, fault, reply) ==
    IF ~openOk
    THEN Raised([self EXCEPT !.serial = <<>>, !.port = <<>>], "OpenFailed",
                <<IoOpen(p, FALSE)>>)
    ELSE LET opened == [self EXCEPT !.serial = <<Serial(p)>>,
                                    !.port = <<p>>]
             g == get_states(opened, fault, reply)
             trace == <<IoOpen(p, TRUE)>> \o g.io
         IN IF g.exc # "none" THEN Raised(g.self, g.exc, trace)
            ELSE LET st == IF g.ret # <<>> THEN g.ret[1] ELSE 0
                 IN Returned([g.self EXCEPT !.state = st], <<st>>, trace)

\* connect() that keeps the old cache when the initial read yields no data
connect_keep(self, p, openOk, fault, reply) ==
    LET c == close(self) IN
    IF ~openOk
    THEN Raised([c.self EXCEPT !.serial = <<>>, !.port = <<>>], "OpenFailed",
                c.io \o <<IoOpen(p, FALSE)>>)
    ELSE LET opened == [c.self EXCEPT !.serial = <<Serial(p)>>,
                                      !.port = <<p>>]
             g == get_states(opened, fault, reply)
             trace == c.io \o <<IoOpen(p, TRUE)>> \o g.io
         IN IF g.exc # "none" THEN Raised(g.self, g.exc, trace)
            ELSE LET st == IF g.ret # <<>> THEN g.ret[1] ELSE g.self.state
                 IN Returned([g.self EXCEPT !.state = st], <<st>>, trace)

\* connect() that writes the mask it has just read back to the board
connect_write_back(self, p, openOk, fault, reply) ==
    LET c == close(self) IN
    IF ~openOk
    THEN Raised([c.self EXCEPT !.serial = <<>>, !.port = <<>>], "OpenFailed",
                c.io \o <<IoOpen(p, FALSE)>>)
    ELSE LET opened == [c.self EXCEPT !.serial = <<Serial(p)>>,
                                      !.port = <<p>>]
             g == get_states(opened, fault, reply)
             trace == c.io \o <<IoOpen(p, TRUE)>> \o g.io
         IN IF g.exc # "none" THEN Raised(g.self, g.exc, trace)
            ELSE LET st == IF g.ret # <<>> THEN g.ret[1] ELSE 0
                     w == set_states(g.self, st, fault)
                 IN IF w.exc # "none" THEN Raised(w.self, w.exc, trace \o w.io)
                    ELSE Returned(w.self, <<st>>, trace \o w.io)

connect(self, p, openOk, fault, reply) ==
    LET c == close(self) IN
    IF ~openOk
    THEN Raised([c.self EXCEPT !.serial = <<>>, !.port = <<>>], "OpenFailed",
                c.io \o <<IoOpen(p, FALSE)>>)
    ELSE LET opened == [c.self EXCEPT !.serial = <<Serial(p)>>,
                                      !.port = <<p>>]
             g == get_states(opened, fault, reply)
             trace == c.io \o <<IoOpen(p, TRUE)>> \o g.io
         IN IF g.exc # "none" THEN Raised(g.self, g.exc, trace)
            ELSE LET st == IF g.ret # <<>> THEN g.ret[1] ELSE 0
                 IN Returned([g.self EXCEPT !.state = st], <<st>>, trace)

(***************************************************************************)
(* The state machine: the caller invokes one method at a time.             *)
(***************************************************************************)
\* the open ports left once the transport calls of trace are made
RECURSIVE HandlesAfter(_, _)
HandlesAfter(n, trace) ==
    IF trace = <<>> THEN n
    ELSE HandlesAfter(IF Head(trace).call = "open" /\ Head(trace).ok THEN n + 1
                      ELSE IF Head(trace).call = "close" THEN n - 1
                      ELSE n,
                      Tail(trace))

\* RelayBoardController(): no handle, no port name, all relays believed off
NewController == [serial |-> <<>>, port |-> <<>>, state |-> 0]

\* RelayBoardApp.__init__ up to refresh_ports: no port chosen, every
\* channel ticked and shown OFF, the relay and bulk buttons disabled
NewApp == [port_var |-> "",
           port_values |-> <<>>,
           status_var |-> "Disconnected",
           connect_button |-> "Connect",
           controls |-> "disabled",
           active_vars |-> [i \in 1..8 |-> TRUE],
           state_vars |-> [i \in 1..8 |-> FALSE],
           labels |-> [i \in 1..8 |-> "OFF"],
           dialog |-> "",
           destroyed |-> FALSE]

Idle == [name |-> "idle"]
NoResult == [exc |-> "none", ret |-> <<>>]

Init ==
    /\ serial = <<>>
    /\ port = <<>>
    /\ state = 0
    /\ call = Idle
    /\ result = NoResult
    /\ io = <<>>
    /\ handles = 0
    /\ board = [mask |-> 0, asked |-> 0]
    /\ peer = NewController
    /\ waited = 0
    /\ gui = NewApp

Connect ==
    \E p \in Ports, openOk \in BOOLEAN, fault \in Faults, reply \in Replies :
        LET r == connect(Self, p, openOk, fault, reply) IN
        /\ call = Idle
        /\ serial' = r.self.serial
        /\ port' = r.self.port
        /\ state' = r.self.state
        /\ call' = [name |-> "connect", port |-> p]
        /\ result' = [exc |-> r.exc, ret |-> r.ret]
        /\ io' = r.io
        /\ handles' = HandlesAfter(handles, r.io)
        /\ UNCHANGED outside

Close ==
    LET r == close(Self) IN
    /\ call = Idle
    /\ serial' = r.self.serial
    /\ port' = r.self.port
    /\ state' = r.self.state
    /\ call' = [name |-> "close"]
    /\ result' = [exc |-> r.exc, ret |-> r.ret]
    /\ io' = r.io
    /\ handles' = HandlesAfter(handles, r.io)
    /\ UNCHANGED outside

GetStates ==
    \E fault \in Faults, reply \in Replies :
        LET r == get_states(Self, fault, reply) IN
        /\ call = Idle
        /\ serial' = r.self.serial
        /\ port' = r.self.port
        /\ state' = r.self.state
        /\ call' = [name |-> "get_states"]
        /\ result' = [exc |-> r.exc, ret |-> r.ret]
        /\ io' = r.io
        /\ handles' = HandlesAfter(handles, r.io)
        /\ UNCHANGED outside

SetStates ==
    \E st \in StateArgs, fault \in Faults :
        LET r == set_states(Self, st, fault) IN
        /\ call = Idle
        /\ serial' = r.self.serial
        /\ port' = r.self.port
        /\ state' = r.self.state
        /\ call' = [name |-> "set_states", state |-> st]
        /\ result' = [exc |-> r.exc, ret |-> r.ret]
        /\ io' = r.io
        /\ handles' = HandlesAfter(handles, r.io)
        /\ UNCHANGED outside

SetChannel ==
    \E channel \in ChannelArgs, on \in BOOLEAN, fault \in Faults :
        LET r == set_channel(Self, channel, on, fault) IN
        /\ call = Idle
        /\ serial' = r.self.serial
        /\ port' = r.self.port
        /\ state' = r.self.state
        /\ call' = [name |-> "set_channel", channel |-> channel, on |-> on]
        /\ result' = [exc |-> r.exc, ret |-> r.ret]
        /\ io' = r.io
        /\ handles' = HandlesAfter(handles, r.io)
        /\ UNCHANGED outside

\* The caller repeats the set_channel call that has just returned, with the
\* same arguments.
SetChannelAgain ==
    \E fault \in Faults :
        LET r == set_channel(Self, call.channel, call.on, fault) IN
        /\ call.name = "set_channel"
        /\ result.exc = "none"
        /\ serial' = r.self.serial
        /\ port' = r.self.port
        /\ state' = r.self.state
        /\ call' = [name |-> "set_channel", channel |-> call.channel, on |-> call.on,
                    again |-> TRUE]
        /\ result' = [exc |-> r.exc, ret |-> r.ret]
        /\ io' = r.io
        /\ handles' = HandlesAfter(handles, r.io)
        /\ UNCHANGED outside

SetChannels ==
    \E channels \in ChannelLists, on \in BOOLEAN, fault \in Faults :
        LET r == set_channels(Self, channels, on, fault) IN
        /\ call = Idle
        /\ serial' = r.self.serial
        /\ port' = r.self.port
        /\ state' = r.self.state
        /\ call' = [name |-> "set_channels", channels |-> channels, on |-> on]
        /\ result' = [exc |-> r.exc, ret |-> r.ret]
        /\ io' = r.io
        /\ handles' = HandlesAfter(handles, r.io)
        /\ UNCHANGED outside

\* Between two calls a byte reaches the input buffer of the open port (the
\* answer to a get-states request whose read had timed out, or line noise).
BytesArrive ==
    \E b \in StaleBytes :
        /\ call = Idle
        /\ is_connected(Self)
        /\ Len(serial[1].in_buffer) < MaxStale
        /\ serial' = <<[serial[1] EXCEPT !.in_buffer = Append(@, b)]>>
        /\ UNCHANGED <<port, state, call, result, io, handles>>
        /\ UNCHANGED outside

\* The caller has consumed the outcome and is about to make its next call.
NextCall ==
    /\ call # Idle
    /\ call' = Idle
    /\ result' = NoResult
    /\ io' = <<>>
    /\ UNCHANGED <<serial, port, state, handles>>
    /\ UNCHANGED outside

Next ==
    \/ Connect
    \/ Close
    \/ GetStates
    \/ SetStates
    \/ SetChannel
    \/ SetChannelAgain
    \/ SetChannels
    \/ BytesArrive
    \/ NextCall

Spec == Init /\ [][Next]_vars

TypeOK ==
    /\ state \in 0..255
    /\ serial = <<>> \/ \E p \in Ports :
         serial = <<[Serial(p) EXCEPT !.in_buffer = serial[1].in_buffer]>>
    /\ port \in {<<>>} \cup {<<p>> : p \in Ports}

(***************************************************************************)
(* Two controller objects, A (serial, port, state) and B (peer), drive one *)
(* board.  The board takes the mask of every set-states command written to *)
(* it and answers a get-states command with its mask, or too late.         *)
(***************************************************************************)
Controllers == {"A", "B"}
SharedChannels == {1, 2}               \* channels the two controllers switch
PortOf(x) == IF x = "A" THEN "COM1" ELSE "COM2"
Ctl(x) == IF x = "A" THEN Self ELSE peer

\* the board's mask once it has received the bytes written in trace
RECURSIVE BoardAfter(_, _)
BoardAfter(mask, trace) ==
    IF trace = <<>> THEN mask
    ELSE BoardAfter(IF /\ Head(trace).call = "write"
                       /\ Head(trace).ok
                       /\ Len(Head(trace).data) = 2
                       /\ Head(trace).data[1] = SET_STATES_CMD
                    THEN Head(trace).data[2]
                    ELSE mask,
                    Tail(trace))

\* the board's answer to a get-states command: its mask, unless it is late
BoardReply(mask, answered) == IF answered THEN <<mask>> ELSE <<>>

\* the mask the callers have asked for, after one more set_channel(c, on)
Asked(mask, c, on) == IF on THEN BitOr(mask, Shl(1, c - 1))
                      ELSE BitAnd(mask, BitNot(Shl(1, c - 1)))

StoreCtl(x, self) ==
    IF x = "A"
    THEN /\ serial' = self.serial
         /\ port' = self.port
         /\ state' = self.state
         /\ peer' = peer
    ELSE /\ peer' = self
         /\ UNCHANGED <<serial, port, state>>

SharedConnect ==
    \E x \in Controllers, answered \in BOOLEAN :
        LET r == connect(Ctl(x), PortOf(x), TRUE, "none", BoardReply(board.mask, answered)) IN
        /\ call = Idle
        /\ StoreCtl(x, r.self)
        /\ call' = [name |-> "connect", port |-> PortOf(x), by |-> x]
        /\ result' = [exc |-> r.exc, ret |-> r.ret]
        /\ io' = r.io
        /\ handles' = HandlesAfter(handles, r.io)
        /\ board' = [board EXCEPT !.mask = BoardAfter(@, r.io)]
        /\ UNCHANGED <<waited, gui>>

SharedGetStates ==
    \E x \in Controllers, answered \in BOOLEAN :
        LET r == get_states(Ctl(x), "none", BoardReply(board.mask, answered)) IN
        /\ call = Idle
        /\ StoreCtl(x, r.self)
        /\ call' = [name |-> "get_states", by |-> x]
        /\ result' = [exc |-> r.exc, ret |-> r.ret]
        /\ io' = r.io
        /\ board' = [board EXCEPT !.mask = BoardAfter(@, r.io)]
        /\ UNCHANGED <<handles, waited, gui>>

SharedSetChannel ==
    \E x \in Controllers, channel \in SharedChannels, on \in BOOLEAN :
        LET r == set_channel(Ctl(x), channel, on, "none") IN
        /\ call = Idle
        /\ StoreCtl(x, r.self)
        /\ call' = [name |-> "set_channel", channel |-> channel, on |-> on, by |-> x]
        /\ result' = [exc |-> r.exc, ret |-> r.ret]
        /\ io' = r.io
        /\ board' = [mask |-> BoardAfter(board.mask, r.io),
                     asked |-> IF r.exc = "none" THEN Asked(board.asked, channel, on)
                               ELSE board.asked]
        /\ UNCHANGED <<handles, waited, gui>>

SharedNextCall ==
    /\ call # Idle
    /\ call' = Idle
    /\ result' = NoResult
    /\ io' = <<>>
    /\ UNCHANGED <<serial, port, state, handles, board, peer, waited, gui>>

NextShared ==
    \/ SharedConnect
    \/ SharedGetStates
    \/ SharedSetChannel
    \/ SharedNextCall

SpecShared == Init /\ [][NextShared]_vars

(***************************************************************************)
(* The read of a get-states exchange as a blocking call.  get_states and   *)
(* connect start, having sent the command, and wait in ser.read(1); the    *)
(* call ends when a byte arrives or when the read timeout of the port has  *)
(* elapsed.  The board may stay silent for ever; time does not stop.       *)
(***************************************************************************)
Pending == [exc |-> "pending", ret |-> <<>>]

\* the read timeout of the port the pending call reads from (<<>>: none)
ReadTimeout == serial[1].timeout

\* the transport calls a pending call has made when it enters the read
BeforeRead(trace) == SubSeq(trace, 1, Len(trace) - 1)

\* connect up to the read of its get_states: the old handle closed, the new
\* port opened and named, the buffer flushed and the command written; the
\* cache is assigned only after the read
StartConnect ==
    \E p \in Ports :
        LET r == connect(Self, p, TRUE, "none", <<>>) IN
        /\ call = Idle
        /\ call' = [name |-> "connect", port |-> p]
        /\ result' = Pending
        /\ serial' = r.self.serial
        /\ port' = r.self.port
        /\ io' = BeforeRead(r.io)
        /\ handles' = HandlesAfter(handles, BeforeRead(r.io))
        /\ waited' = 0
        /\ UNCHANGED <<state, board, peer, gui>>

\* get_states up to its read: the buffer flushed and the command written
StartGetStates ==
    LET r == get_states(Self, "none", <<>>) IN
    /\ call = Idle
    /\ is_connected(Self)
    /\ call' = [name |-> "get_states"]
    /\ result' = Pending
    /\ serial' = r.self.serial
    /\ io' = BeforeRead(r.io)
    /\ handles' = HandlesAfter(handles, BeforeRead(r.io))
    /\ waited' = 0
    /\ UNCHANGED <<port, state, board, peer, gui>>

\* the pending call from its read on, the read having returned reply:
\* get_states caches and returns the byte or returns None; connect then
\* caches and returns that state, 0 for None
Completed(reply) ==
    LET g == get_states(Self, "none", reply)
        st == IF g.ret # <<>> THEN g.ret[1] ELSE 0
    IN IF call.name = "connect"
       THEN Returned([g.self EXCEPT !.state = st], <<st>>, <<g.io[Len(g.io)]>>)
       ELSE Returned(g.self, g.ret, <<g.io[Len(g.io)]>>)

\* one time unit passes while the read is blocked
Tick ==
    /\ result = Pending
    /\ IF ReadTimeout = <<>> THEN TRUE ELSE waited < ReadTimeout[1]
    /\ waited' = IF ReadTimeout = <<>> THEN waited ELSE waited + 1
    /\ UNCHANGED <<serial, port, state, call, result, io, handles, board, peer, gui>>

Finish(r) ==
    /\ serial' = r.self.serial
    /\ port' = r.self.port
    /\ state' = r.self.state
    /\ result' = [exc |-> r.exc, ret |-> r.ret]
    /\ io' = io \o r.io
    /\ handles' = HandlesAfter(handles, r.io)
    /\ UNCHANGED <<call, waited, board, peer, gui>>

\* the board answers before the timeout
ReadGetsByte ==
    \E b \in ReplyBytes :
        /\ result = Pending
        /\ IF ReadTimeout = <<>> THEN TRUE ELSE waited < ReadTimeout[1]
        /\ Finish(Completed(<<b>>))

\* the timeout has elapsed: read returns b""
ReadTimesOut ==
    /\ result = Pending
    /\ IF ReadTimeout = <<>> THEN FALSE ELSE waited >= ReadTimeout[1]
    /\ Finish(Completed(<<>>))

\* close makes no read: it never waits
CloseNow ==
    LET r == close(Self) IN
    /\ call = Idle
    /\ call' = [name |-> "close"]
    /\ serial' = r.self.serial
    /\ port' = r.self.port
    /\ state' = r.self.state
    /\ result' = [exc |-> r.exc, ret |-> r.ret]
    /\ io' = r.io
    /\ handles' = HandlesAfter(handles, r.io)
    /\ UNCHANGED <<waited, board, peer, gui>>

BlockingNextCall ==
    /\ call # Idle
    /\ result # Pending
    /\ call' = Idle
    /\ result' = NoResult
    /\ io' = <<>>
    /\ waited' = 0
    /\ UNCHANGED <<serial, port, state, handles, board, peer, gui>>

NextBlocking ==
    \/ StartConnect
    \/ StartGetStates
    \/ Tick
    \/ ReadGetsByte
    \/ ReadTimesOut
    \/ CloseNow
    \/ BlockingNextCall

\* time passes, and a read whose timeout has elapsed returns
SpecBlocking ==
    Init /\ [][NextBlocking]_vars /\ WF_vars(Tick) /\ WF_vars(ReadTimesOut)

(***************************************************************************)
(* RelayBoardApp: the window over one controller.  A handler is a function *)
(* of the window, the controller and what the transport does; dialog is    *)
(* the message box the handler showed ("" when it showed none).            *)
(***************************************************************************)
\* what list_ports.comports() may find
PortLists == {<<>>, <<"COM1">>, <<"COM1", "COM2">>}
\* the relay buttons and the checkboxes the user is taken to click
GuiChannels == {1, 2, 8}
TickChannels == {1, 8}
GuiReplies == {<<>>, <<0>>, <<129>>}

Handled(app, self, trace) == [app |-> app, self |-> self, io |-> trace]
Show(app, title) == [app EXCEPT !.dialog = title]

Found(ports) ==
    CASE Len(ports) = 0 -> "No COM ports detected."
      [] Len(ports) = 1 -> "Found 1 port(s)."
      [] OTHER -> "Found 2 port(s)."

ConnectedTo(p) == IF p = "COM1" THEN "Connected to COM1" ELSE "Connected to COM2"

InPorts(p, ports) == \E i \in 1..Len(ports) : ports[i] = p

refresh_ports(app, ports) ==
    [app EXCEPT !.port_values = ports,
                !.port_var = IF ports # <<>> /\ ~InPorts(app.port_var, ports) THEN ports[1]
                             ELSE IF ports = <<>> THEN ""
                             ELSE app.port_var,
                !.status_var = Found(ports),
                !.dialog = ""]

set_controls_enabled(app, enabled) ==
    [app EXCEPT !.controls = IF enabled THEN "normal" ELSE "disabled"]

apply_state_to_ui(app, st) ==
    [app EXCEPT !.state_vars = [idx \in 1..8 |-> BitAnd(st, Shl(1, idx - 1)) # 0],
                !.labels = [idx \in 1..8 |->
                               IF BitAnd(st, Shl(1, idx - 1)) # 0 THEN "ON" ELSE "OFF"]]

toggle_connection(app, self, openOk, fault, reply) ==
    IF is_connected(self)
    THEN LET c == close(self)
         IN Handled(set_controls_enabled(
                        [app EXCEPT !.status_var = "Disconnected",
                                    !.connect_button = "Connect",
                                    !.dialog = ""], FALSE),
                    c.self, c.io)
    ELSE IF app.port_var = ""
    THEN Handled(Show(app, "Select Port"), self, <<>>)
    ELSE LET r == connect(self, app.port_var, openOk, fault, reply)
         IN IF r.exc # "none"
            THEN Handled([app EXCEPT !.dialog = "Connection Failed",
                                     !.status_var = "Disconnected"],
                         r.self, r.io)
            ELSE Handled(apply_state_to_ui(
                             set_controls_enabled(
                                 [app EXCEPT !.status_var = ConnectedTo(app.port_var),
                                             !.connect_button = "Disconnect",
                                             !.dialog = ""], TRUE),
                             r.ret[1]),
                         r.self, r.io)

refresh_states(app, self, fault, reply) ==
    IF ~is_connected(self)
    THEN Handled(Show(app, "Not connected"), self, <<>>)
    ELSE LET r == get_states(self, fault, reply)
         IN IF r.exc # "none" THEN Handled(Show(app, "Read Failed"), r.self, r.io)
            ELSE IF r.ret = <<>> THEN Handled(Show(app, "No Response"), r.self, r.io)
            ELSE Handled(apply_state_to_ui(Show(app, ""), r.ret[1]), r.self, r.io)

toggle_relay(app, self, channel, fault) ==
    IF ~is_connected(self)
    THEN Handled(Show(app, "Not connected"), self, <<>>)
    ELSE LET desired == ~app.state_vars[channel]
             r == set_channel(self, channel, desired, fault)
         IN IF r.exc # "none" THEN Handled(Show(app, "Write Failed"), r.self, r.io)
            ELSE Handled(apply_state_to_ui(Show(app, ""), r.ret[1]), r.self, r.io)

\* the ticked channels, ascending, from channel idx on
RECURSIVE Ticked(_, _)
Ticked(active, idx) ==
    IF idx > 8 THEN <<>>
    ELSE (IF active[idx] THEN <<idx>> ELSE <<>>) \o Ticked(active, idx + 1)

set_selected(app, self, on, fault) ==
    IF ~is_connected(self)
    THEN Handled(Show(app, "Not connected"), self, <<>>)
    ELSE LET channels == Ticked(app.active_vars, 1)
         IN IF channels = <<>>
            THEN Handled(Show(app, "No channels selected"), self, <<>>)
            ELSE LET r == set_channels(self, channels, on, fault)
                 IN IF r.exc # "none"
                    THEN Handled(Show(app, "Write Failed"), r.self, r.io)
                    ELSE Handled(apply_state_to_ui(Show(app, ""), r.ret[1]), r.self, r.io)

\* the window is closed: the controller is closed and the window destroyed,
\* what it showed is left as it was
on_close(app, self) ==
    LET c == close(self)
    IN Handled([app EXCEPT !.destroyed = TRUE], c.self, c.io)

\* RelayBoardApp(root): the window built and the ports listed once
InitGui ==
    /\ serial = <<>>
    /\ port = <<>>
    /\ state = 0
    /\ call = Idle
    /\ result = NoResult
    /\ io = <<>>
    /\ handles = 0
    /\ board = [mask |-> 0, asked |-> 0]
    /\ peer = NewController
    /\ waited = 0
    /\ \E ports \in PortLists : gui = refresh_ports(NewApp, ports)

\* the handler has returned: the window and the controller it leaves
HandlerDone(h) ==
    /\ gui' = h.app
    /\ serial' = h.self.serial
    /\ port' = h.self.port
    /\ state' = h.self.state
    /\ result' = NoResult
    /\ io' = h.io
    /\ handles' = HandlesAfter(handles, h.io)
    /\ UNCHANGED <<board, peer, waited>>

\* the user clicks the Connect / Disconnect button
ClickConnect ==
    \E openOk \in BOOLEAN, fault \in Faults, reply \in GuiReplies :
        /\ ~gui.destroyed
        /\ call' = [name |-> "toggle_connection"]
        /\ HandlerDone(toggle_connection(gui, Self, openOk, fault, reply))

\* the relay and bulk buttons act only while enabled
ClickReadStates ==
    \E fault \in Faults, reply \in GuiReplies :
        /\ ~gui.destroyed
        /\ gui.controls = "normal"
        /\ call' = [name |-> "refresh_states"]
        /\ HandlerDone(refresh_states(gui, Self, fault, reply))

ClickRelay ==
    \E channel \in GuiChannels, fault \in Faults :
        /\ ~gui.destroyed
        /\ gui.controls = "normal"
        /\ call' = [name |-> "toggle_relay"]
        /\ HandlerDone(toggle_relay(gui, Self, channel, fault))

ClickSelected ==
    \E on \in BOOLEAN, fault \in Faults :
        /\ ~gui.destroyed
        /\ gui.controls = "normal"
        /\ call' = [name |-> "set_selected"]
        /\ HandlerDone(set_selected(gui, Self, on, fault))

ClickRefreshPorts ==
    \E ports \in PortLists :
        /\ ~gui.destroyed
        /\ call' = [name |-> "refresh_ports"]
        /\ HandlerDone(Handled(refresh_ports(gui, ports), Self, <<>>))

\* the user ticks or unticks a channel's checkbox
TickChannel ==
    \E idx \in TickChannels :
        /\ ~gui.destroyed
        /\ call' = [name |-> "tick", channel |-> idx]
        /\ HandlerDone(Handled([gui EXCEPT !.active_vars[idx] = ~gui.active_vars[idx]],
                               Self, <<>>))

\* the user picks a port in the combobox
PickPort ==
    \E i \in 1..Len(gui.port_values) :
        /\ ~gui.destroyed
        /\ call' = [name |-> "pick_port"]
        /\ HandlerDone(Handled([gui EXCEPT !.port_var = gui.port_values[i]], Self, <<>>))

\* the user closes the window (WM_DELETE_WINDOW)
CloseWindow ==
    /\ ~gui.destroyed
    /\ call' = [name |-> "on_close"]
    /\ HandlerDone(on_close(gui, Self))

\* the user closes the window while toggle_connection waits in its
\* "Connection Failed" box: on_close runs inside the handler, and the
\* handler, its window gone, does not reach the status line
CloseWindowInDialog ==
    \E openOk \in BOOLEAN, fault \in Faults, reply \in GuiReplies :
        LET r == connect(Self, gui.port_var, openOk, fault, reply)
            h == on_close(Show(gui, "Connection Failed"), r.self)
        IN /\ ~gui.destroyed
           /\ ~is_connected(Self)
           /\ gui.port_var # ""
           /\ r.exc # "none"
           /\ call' = [name |-> "toggle_connection", closed |-> TRUE]
           /\ HandlerDone(Handled(h.app, h.self, r.io \o h.io))

NextGui ==
    \/ ClickConnect
    \/ ClickReadStates
    \/ ClickRelay
    \/ ClickSelected
    \/ ClickRefreshPorts
    \/ TickChannel
    \/ PickPort
    \/ CloseWindow
    \/ CloseWindowInDialog

SpecGui == InitGui /\ [][NextGui]_vars

(***************************************************************************)
(* Vocabulary of the properties.                                           *)
(***************************************************************************)
Bit(m, i) == (m \div 2^i) % 2

IsWrite(e) == e.call = "write"
IsRead(e) == e.call = "read"
WritesOf(trace) == SelectSeq(trace, IsWrite)
ReadsOf(trace) == SelectSeq(trace, IsRead)

\* bit c-1 of m is forced to v, every other bit of m is the bit of s
OnlyBitChanged(s, m, c, v) ==
    /\ m \in 0..255
    /\ \A i \in 0..7 : Bit(m, i) = IF i = c - 1 THEN v ELSE Bit(s, i)

\* every listed bit of m is forced to v, every other bit of m is the bit of s
ListedBitsChanged(s, m, channels, v) ==
    /\ m \in 0..255
    /\ \A i \in 0..7 :
         Bit(m, i) = IF \E k \in 1..Len(channels) : channels[k] = i + 1
                     THEN v ELSE Bit(s, i)

\* the invocation sent exactly the set-states command with mask m
OneSetStates(trace, m) ==
    /\ Len(WritesOf(trace)) = 1
    /\ WritesOf(trace)[1].data = <<SET_STATES_CMD, m>>
    /\ WritesOf(trace)[1].ok

HasInvalidChannel(channels) == \E k \in 1..Len(channels) : channels[k] < 1 \/ channels[k] > 8

\* C1: set_channel(c, on) with c in 1..8 that returns on a connected
\* controller returns and caches the old mask with bit c-1 set (on) or
\* cleared (off), every other bit unchanged, and the one payload byte sent
\* is that mask.
C1_SetChannelMask ==
    [][(/\ call'.name = "set_channel"
        /\ call'.channel \in 1..8
        /\ result'.exc = "none")
       => /\ is_connected(Self)
          /\ OnlyBitChanged(state, state', call'.channel, IF call'.on THEN 1 ELSE 0)
          /\ result'.ret = <<state'>>
          /\ OneSetStates(io', state')
          /\ state' = IF call'.on
                      THEN state + (1 - Bit(state, call'.channel - 1)) * 2^(call'.channel - 1)
                      ELSE state - Bit(state, call'.channel - 1) * 2^(call'.channel - 1)]_vars

C1_Witness ==
    /\ call.name = "set_channel"
    /\ call.channel = 8
    /\ ~call.on
    /\ result = [exc |-> "none", ret |-> <<127>>]
    /\ state = 127
    /\ OneSetStates(io, 127)

\* C2 (as claimed): whenever is_connected is false, get_states, set_states,
\* set_channel and set_channels fail with the not-connected error whatever
\* their arguments, make no write and no read on the transport, and leave the
\* cache unchanged.
C2_AnyArgsNotConnected ==
    [][(/\ ~is_connected(Self)
        /\ call'.name \in {"get_states", "set_states", "set_channel", "set_channels"})
       => /\ result'.exc = "NotConnected"
          /\ WritesOf(io') = <<>>
          /\ ReadsOf(io') = <<>>
          /\ state' = state]_vars

InvalidArgs(c) ==
    \/ c.name = "set_channel" /\ (c.channel < 1 \/ c.channel > 8)
    \/ c.name = "set_channels" /\ HasInvalidChannel(c.channels)

\* C2 (amended): whenever is_connected is false, get_states, set_states, and
\* set_channel / set_channels with every channel in 1..8 fail with the
\* not-connected error; set_channel / set_channels with a channel outside
\* 1..8 fail with the invalid-channel error instead; in every case no byte
\* is written or read and the cache is unchanged.
C2_NotConnected ==
    [][(/\ ~is_connected(Self)
        /\ call'.name \in {"get_states", "set_states", "set_channel", "set_channels"})
       => /\ result'.exc = IF InvalidArgs(call') THEN "ValueError" ELSE "NotConnected"
          /\ result'.ret = <<>>
          /\ WritesOf(io') = <<>>
          /\ ReadsOf(io') = <<>>
          /\ io' = <<>>
          /\ state' = state
          /\ ~is_connected(Self)']_vars

C2_Witness ==
    /\ ~is_connected(Self)
    /\ call.name = "set_channels"
    /\ call.channels = <<2, 4, 6>>
    /\ result.exc = "NotConnected"
    /\ io = <<>>
    /\ state = 129

\* C3: whenever connect fails (the port cannot be opened, or a transport call
\* raises during the initial get-states exchange) the controller holds no
\* open handle afterwards: is_connected is false and the port is absent.
C3_NoHalfOpenHandle ==
    (call.name = "connect" /\ result.exc # "none")
        => (~is_connected(Self) /\ port = <<>> /\ serial = <<>>)

\* C4: set_channels with an entry outside 1..8 at any position fails with the
\* invalid-channel error, makes no transport call, and leaves the cache as it
\* was.
C4_InvalidEntryAllOrNothing ==
    [][(/\ call'.name = "set_channels"
        /\ HasInvalidChannel(call'.channels))
       => /\ result' = [exc |-> "ValueError", ret |-> <<>>]
          /\ io' = <<>>
          /\ state' = state
          /\ serial' = serial
          /\ port' = port]_vars

C4_Witness ==
    /\ call.name = "set_channels"
    /\ call.channels = <<2, 9>>
    /\ call.on
    /\ is_connected(Self)
    /\ result.exc = "ValueError"
    /\ state = 129
    /\ io = <<>>

\* C5: set_channel with a channel below 1 or above 8 fails with the
\* invalid-channel error, makes no write, and leaves the cache unchanged.
C5_InvalidChannel ==
    [][(/\ call'.name = "set_channel"
        /\ (call'.channel < 1 \/ call'.channel > 8))
       => /\ result' = [exc |-> "ValueError", ret |-> <<>>]
          /\ WritesOf(io') = <<>>
          /\ state' = state]_vars

C5_Witness ==
    /\ call.name = "set_channel"
    /\ call.channel = 9
    /\ call.on
    /\ is_connected(Self)
    /\ result.exc = "ValueError"
    /\ state = 42
    /\ io = <<>>

\* C6: a set_channels that returns had every entry in 1..8 and made exactly
\* one write, the set-states command followed by one mask byte; the mask is
\* the old cache with every listed bit set (on) or cleared (off), it is the
\* new cache and the returned value.
C6_OneCombinedWrite ==
    [][(/\ call'.name = "set_channels"
        /\ result'.exc = "none")
       => /\ ~HasInvalidChannel(call'.channels)
          /\ ListedBitsChanged(state, state', call'.channels, IF call'.on THEN 1 ELSE 0)
          /\ OneSetStates(io', state')
          /\ ReadsOf(io') = <<>>
          /\ result'.ret = <<state'>>]_vars

C6_Witness ==
    /\ call = [name |-> "set_channels", channels |-> <<2, 4, 6>>, on |-> TRUE]
    /\ result = [exc |-> "none", ret |-> <<42>>]
    /\ state = 42
    /\ OneSetStates(io, 42)

\* the invocation made a successful set-states write and cached its mask
WriteCached(trace, res, m) ==
    /\ res.exc = "none"
    /\ \E k \in 1..Len(trace) :
         /\ trace[k].call = "write"
         /\ trace[k].ok
         /\ trace[k].data = <<SET_STATES_CMD, m>>

\* the invocation received the byte b from the board
ReadGot(trace, b) ==
    \E k \in 1..Len(trace) :
        /\ trace[k].call = "read"
        /\ trace[k].ok
        /\ trace[k].data = <<b>>

\* the invocation read the board and got no byte before the timeout
ReadNoData(trace) ==
    \E k \in 1..Len(trace) :
        /\ trace[k].call = "read"
        /\ trace[k].ok
        /\ trace[k].data = <<>>

\* C7 (as claimed): the cache changes only in a set_states that succeeds, to
\* the mask written, and in a get_states that receives a byte, to that byte;
\* connect, close and failed operations do not alter it otherwise.
C7_OnlyWriteOrRead ==
    [][state' # state
       => \/ WriteCached(io', result', state')
          \/ ReadGot(io', state')]_vars

\* C7 (amended): the cache changes only in a set_states that succeeds (to the
\* mask written), in a get_states that receives a byte (to that byte), and
\* in a connect whose initial read yields no data (to 0); conversely after a
\* successful write or a received byte the cache is that value, so the cache
\* always equals the last value written or read, or the 0 of such a connect.
C7_CacheChanges ==
    [][/\ state' # state
          => \/ WriteCached(io', result', state')
             \/ ReadGot(io', state')
             \/ (call'.name = "connect" /\ result'.exc = "none"
                   /\ ReadNoData(io') /\ state' = 0)
       /\ \A k \in 1..Len(io') :
            /\ (/\ result'.exc = "none"
                /\ io'[k].call = "write"
                /\ io'[k].ok
                /\ Len(io'[k].data) = 2
                /\ io'[k].data[1] = SET_STATES_CMD)
                  => state' = io'[k].data[2]
            /\ (io'[k].call = "read" /\ io'[k].ok /\ io'[k].data # <<>>)
                  => state' = io'[k].data[1]]_vars

C7_Witness ==
    /\ call = [name |-> "set_states", state |-> 432]
    /\ WriteCached(io, result, 176)
    /\ state = 176

\* C8: get_states on an open connection whose read completes: if a byte b
\* arrived, the cache becomes b and b is returned; if none arrived, the call
\* returns None without raising and the cache keeps its previous value.
C8_ReadStates ==
    [][(/\ call'.name = "get_states"
        /\ is_connected(Self)
        /\ ReadsOf(io') # <<>>
        /\ ReadsOf(io')[1].ok)
       => /\ Len(ReadsOf(io')) = 1
          /\ IF ReadsOf(io')[1].data # <<>>
             THEN /\ state' = ReadsOf(io')[1].data[1]
                  /\ result' = [exc |-> "none", ret |-> <<state'>>]
             ELSE /\ state' = state
                  /\ result' = [exc |-> "none", ret |-> <<>>]]_vars

C8_Witness ==
    /\ call.name = "get_states"
    /\ is_connected(Self)
    /\ ReadNoData(io)
    /\ result = [exc |-> "none", ret |-> <<>>]
    /\ state = 129

\* C9: when connect opens the port and its initial read yields no data, it
\* still returns (no error), the controller is connected, and the cache and
\* the returned value are 0 whatever the cache held before.
C9_ConnectNoData ==
    [][(/\ call'.name = "connect"
        /\ ReadNoData(io'))
       => /\ result' = [exc |-> "none", ret |-> <<0>>]
          /\ state' = 0
          /\ is_connected(Self)'
          /\ port' = <<call'.port>>]_vars

C9_Witness ==
    /\ call.name = "connect"
    /\ ReadNoData(io)
    /\ result = [exc |-> "none", ret |-> <<0>>]
    /\ state = 0
    /\ is_connected(Self)

\* C10: a connect that returns after the board answered b made exactly one
\* write, the single byte of the get-states command, after opening the port,
\* and one read; it returns b, the cache is b and the controller is
\* connected.
C10_ConnectReadsOnce ==
    [][(/\ call'.name = "connect"
        /\ result'.exc = "none"
        /\ \E b \in 0..255 : ReadGot(io', b))
       => /\ Len(io') >= 4
          /\ SubSeq(io', Len(io') - 3, Len(io'))
               = <<IoOpen(call'.port, TRUE), IoFlush(TRUE),
                   IoWrite(<<GET_STATES_CMD>>, TRUE),
                   IoRead(<<state'>>, TRUE)>>
          /\ Len(WritesOf(io')) = 1
          /\ Len(ReadsOf(io')) = 1
          /\ result'.ret = <<state'>>
          /\ is_connected(Self)'
          /\ port' = <<call'.port>>]_vars

C10_Witness ==
    /\ call.name = "connect"
    /\ result = [exc |-> "none", ret |-> <<0>>]
    /\ ReadGot(io, 0)
    /\ state = 0
    /\ is_connected(Self)

BytesOf(buf) == {buf[i] : i \in 1..Len(buf)}

\* C11: get_states discards the input buffer before it sends the get-states
\* command, so a byte that sat in the input buffer when get_states was called
\* is neither returned by the call nor stored in the cache.
C11_StaleByteNeverRead ==
    [][(/\ call'.name = "get_states"
        /\ is_connected(Self)
        /\ serial[1].in_buffer # <<>>)
       => /\ \A k \in 1..Len(io') :
               /\ io'[k].call = "write"
                    => \E j \in 1..(k - 1) :
                         io'[j] = IoFlushed(serial[1].in_buffer)
               /\ io'[k].call = "read"
                    => BytesOf(io'[k].data) \cap BytesOf(serial[1].in_buffer) = {}
          /\ BytesOf(result'.ret) \cap BytesOf(serial[1].in_buffer) = {}
          /\ state' # state => state' \notin BytesOf(serial[1].in_buffer)
          /\ (WritesOf(io') # <<>>) => serial'[1].in_buffer = <<>>]_vars

C11_Witness ==
    /\ call.name = "get_states"
    /\ io = <<IoFlushed(<<7>>), IoWrite(<<GET_STATES_CMD>>, TRUE), IoRead(<<42>>, TRUE)>>
    /\ result = [exc |-> "none", ret |-> <<42>>]
    /\ state = 42

\* C12: a set_states(st) that returns on an open connection made exactly one
\* write, of the two bytes 0x5C and st mod 256 in that order, and no read;
\* the cache and the returned value are st mod 256 for any integer st.
C12_WriteStates ==
    [][(/\ call'.name = "set_states"
        /\ is_connected(Self)
        /\ result'.exc = "none")
       => /\ io' = <<IoFlushed(serial[1].in_buffer),
                     IoWrite(<<92, call'.state % 256>>, TRUE)>>
          /\ ReadsOf(io') = <<>>
          /\ state' = call'.state % 256
          /\ result'.ret = <<call'.state % 256>>]_vars

C12_Witness ==
    /\ call = [name |-> "set_states", state |-> 176]
    /\ result = [exc |-> "none", ret |-> <<176>>]
    /\ state = 176
    /\ WritesOf(io) = <<IoWrite(<<92, 176>>, TRUE)>>

\* C13: the controller holds at most one open port at any time, and the one
\* it holds is the current handle: connect closes the open connection before
\* it opens the new one, also when the connect then fails.
C13_AtMostOneConnection ==
    [][/\ handles' <= 1
       /\ handles' = IF is_connected(Self)' THEN 1 ELSE 0
       /\ \A k \in 1..Len(io') :
            io'[k].call = "open"
                => handles + HandlesAfter(0, SubSeq(io', 1, k - 1)) = 0]_vars

C13_Witness ==
    /\ call.name = "connect"
    /\ Len(io) >= 2
    /\ io[1] = IoClose
    /\ io[2] = IoOpen("COM2", TRUE)
    /\ handles = 1
    /\ result.exc = "SerialException"

\* C14: close never raises; it closes the open port if there is one, leaves
\* handle and port name absent, keeps the cache and writes nothing; on a
\* closed controller it makes no transport call and changes nothing.
C14_CloseIdempotent ==
    [][call'.name = "close"
       => /\ result' = [exc |-> "none", ret |-> <<>>]
          /\ serial' = <<>>
          /\ port' = <<>>
          /\ ~is_connected(Self)'
          /\ handles' = 0
          /\ state' = state
          /\ io' = IF is_connected(Self) THEN <<IoClose>> ELSE <<>>
          /\ ~is_connected(Self) => Self' = Self
          /\ close(Self').self = Self'
          /\ close(Self').io = <<>>]_vars

C14_Witness ==
    /\ call.name = "close"
    /\ io = <<IoClose>>
    /\ serial = <<>>
    /\ port = <<>>
    /\ state = 129
    /\ handles = 0

\* C15: set_channel is idempotent: when the call that has just returned is
\* repeated with the same arguments and returns, the cache and the returned
\* mask are those of the first call and the same bytes are written.
C15_SetChannelIdempotent ==
    [][(/\ call.name = "set_channel"
        /\ result.exc = "none"
        /\ call'.name = "set_channel"
        /\ call'.channel = call.channel
        /\ call'.on = call.on
        /\ result'.exc = "none")
       => /\ state' = state
          /\ result' = result
          /\ WritesOf(io') = WritesOf(io)]_vars

C15_Witness ==
    /\ call = [name |-> "set_channel", channel |-> 3, on |-> TRUE, again |-> TRUE]
    /\ result = [exc |-> "none", ret |-> <<133>>]
    /\ state = 133
    /\ OneSetStates(io, 133)

\* C16: set_channels with an empty list that returns on a connected
\* controller with cache s made exactly one set-states write with payload s
\* and left the cache s: the outcome of set_states(s).
C16_EmptyListWritesCache ==
    [][(/\ call'.name = "set_channels"
        /\ call'.channels = <<>>
        /\ is_connected(Self)
        /\ result'.exc = "none")
       => /\ OneSetStates(io', state)
          /\ ReadsOf(io') = <<>>
          /\ state' = state
          /\ result'.ret = <<state>>
          /\ set_states(Self, state, "none").self = Self'
          /\ set_states(Self, state, "none").ret = result'.ret
          /\ set_states(Self, state, "none").io = io']_vars

C16_Witness ==
    /\ call = [name |-> "set_channels", channels |-> <<>>, on |-> FALSE]
    /\ result = [exc |-> "none", ret |-> <<129>>]
    /\ state = 129
    /\ OneSetStates(io, 129)

\* C19: in every reachable state the cache is an integer in 0..255, and
\* every byte handed to the transport, the mask bytes included, is in 0..255.
C19_EightBitState ==
    /\ state \in 0..255
    /\ \A k \in 1..Len(io) :
         io[k].call = "write" => \A i \in 1..Len(io[k].data) : io[k].data[i] \in 0..255

C19_Witness ==
    /\ call = [name |-> "set_channel", channel |-> 8, on |-> FALSE]
    /\ result = [exc |-> "none", ret |-> <<0>>]
    /\ state = 0
    /\ OneSetStates(io, 0)

\* C17: set_channel is a read-modify-write of the caller's own cache and does
\* not query the board: the mask the board holds after a set_channel that
\* returned is the caller's cache with the one bit forced, whatever the board
\* held before.  With two controllers on one board an update is therefore
\* lost (see C17_LostUpdate).
C17_WritesFromOwnCache ==
    [][(/\ call'.name = "set_channel"
        /\ result'.exc = "none")
       => /\ OnlyBitChanged(IF call'.by = "A" THEN state ELSE peer.state,
                            board'.mask, call'.channel, IF call'.on THEN 1 ELSE 0)
          /\ ReadsOf(io') = <<>>
          /\ board'.mask = IF call'.by = "A" THEN state' ELSE peer'.state
          /\ IF call'.by = "A" THEN peer' = peer ELSE state' = state]_vars

\* A was asked to set channel 1 ON and did; B, whose cache did not have
\* channel 1, then set channel 2 ON: the board has channel 1 OFF again.
C17_LostUpdate ==
    /\ call = [name |-> "set_channel", channel |-> 2, on |-> TRUE, by |-> "B"]
    /\ result.exc = "none"
    /\ Bit(state, 0) = 1
    /\ Bit(board.asked, 0) = 1
    /\ Bit(board.asked, 1) = 1
    /\ Bit(board.mask, 0) = 0
    /\ Bit(board.mask, 1) = 1

\* C18: no operation blocks for ever waiting for the board: a get_states or
\* connect waiting in its read ends after at most the read timeout, also
\* when the board never sends a byte; it then made a bounded number of
\* transport calls, get_states returns None with the cache kept, and connect
\* returns 0 with the cache 0.
C18_NoOperationBlocksForever ==
    /\ (result = Pending) ~> (result # Pending)
    /\ [](waited <= 1 /\ Len(io) <= 5)
    /\ [][(result = Pending /\ result' # Pending /\ ReadNoData(io'))
          => /\ waited = 1
             /\ IF call.name = "connect"
                THEN result' = [exc |-> "none", ret |-> <<0>>] /\ state' = 0
                ELSE result' = [exc |-> "none", ret |-> <<>>] /\ state' = state]_vars

C18_Witness ==
    /\ call.name = "connect"
    /\ result = [exc |-> "none", ret |-> <<0>>]
    /\ ReadNoData(io)
    /\ waited = 1
    /\ state = 0
    /\ is_connected(Self)

\* what the window shows of the relays equals the bits of the cache
ShownIsCache ==
    \A idx \in 1..8 :
        /\ gui.state_vars[idx] = (Bit(state, idx - 1) = 1)
        /\ gui.labels[idx] = IF Bit(state, idx - 1) = 1 THEN "ON" ELSE "OFF"

\* the window presents itself as connected
ConnectedPresentation ==
    gui.controls = "normal" /\ gui.connect_button = "Disconnect"

\* the handlers C20 names
ClaimedHandlers == {"toggle_connection", "refresh_states", "toggle_relay", "set_selected"}

\* C20: after each of toggle_connection, refresh_states, toggle_relay and
\* set_selected has returned, the window still being there, (a) the ON/OFF
\* value shown for each channel is the bit of the controller's cache and (b)
\* the window presents itself as connected exactly when the controller is
\* connected.
C20_GuiMatchesController ==
    (call.name \in ClaimedHandlers /\ ~gui.destroyed)
    => /\ ShownIsCache
       /\ ConnectedPresentation <=> is_connected(Self)
====
